---------------------------- MODULE Spec2Model ----------------------------
(***************************************************************************)
(* The ClearAg API client (beardon/clearag-api).                           *)
(*                                                                         *)
(* Two classes are modelled:                                               *)
(*   ClearAg     src/lib/clearag.js      the strict variant   (_http)      *)
(*   ClearAgApi  src/unnamed/part_000    the tolerant variant (_request)   *)
(*                                                                         *)
(* JavaScript values are tagged records ([t |-> "string", v |-> ...]), a   *)
(* string's value is the sequence of its characters, and an object is a    *)
(* finite map from property names to values.  The transport (axios) and    *)
(* the logger are the environment: the transport answers every request it  *)
(* is handed with a response, or with an error that may carry a response.  *)
(***************************************************************************)
EXTENDS Integers, Sequences, FiniteSets, TLC

\* The fields of the model's records; every record lists its fields in
\* this order.
Fields ==
    [appId |-> "the appId argument of _get and _httpGet",
     appKey |-> "the appKey argument of _get and _httpGet",
     args |-> "the arguments a call was made with",
     axiosConfig |-> "the config _writeLog is given",
     config |-> "the config of a call, as the pipeline left it",
     endpoint |-> "the endpoint of a call",
     entry |-> "the method a call entered by",
     error |-> "what was raised",
     host |-> "the host of the instance when _buildApiUrl was applied",
     kind |-> "how the transport answered: resolve or reject",
     kv |-> "the properties of an object",
     level |-> "the level of a log line",
     line |-> "the text of a log line",
     logLevel |-> "the logLevel argument of _writeLog",
     logger |-> "the logger given to the constructor",
     logs |-> "the lines a step gave to the logger",
     op |-> "the function applied",
     options |-> "the options given to the constructor",
     out |-> "what the function applied gave",
     outcome |-> "the answer of the transport to a call",
     params |-> "the params a caller passes, as they read when passed",
     pc |-> "where a call stands",
     ref |-> "which object a call was given as params",
     response |-> "the response of the transport",
     result |-> "what a call returned or raised",
     self |-> "the instance after a step",
     sent |-> "the configs a step handed to the transport",
     t |-> "the type of a value",
     threw |-> "whether a step raised",
     type |-> "return or throw",
     v |-> "a primitive value",
     value |-> "what was returned",
     why |-> "the expression that raised a TypeError"]

VARIABLES
    client,   \* the instance (`this`): the fields the constructor sets
    calls,    \* per call: position, arguments, config handed over, result
    wire,     \* per call: the configs handed to the transport, in order,
              \* as the objects read now
    sink,     \* the lines the logger received, in order, with their level
    heap,     \* the params objects callers hold, as they read now
    fn        \* a single application of a pure function (input and output)

vars == <<client, calls, wire, sink, heap, fn>>

---------------------------------------------------------------------------
(* Bounds of the model.                                                    *)

MaxCalls == 2      \* calls in flight on one instance
MaxLen == 2        \* length of the endpoint strings given to _buildApiUrl

---------------------------------------------------------------------------
(* JavaScript values.                                                      *)

Undefined == [t |-> "undefined"]
Null == [t |-> "null"]
Str(s) == [t |-> "string", v |-> s]
Num(n) == [t |-> "number", v |-> n]
Bool(b) == [t |-> "boolean", v |-> b]
Obj(kv) == [kv |-> kv, t |-> "object"]
EmptyObj == Obj([k \in {} |-> Undefined])

\* An object literal of one or two properties.
Lit1(k1, v1) == Obj([k \in {k1} |-> v1])
Lit2(k1, v1, k2, v2) == Obj([k \in {k1, k2} |-> IF k = k1 THEN v1 ELSE v2])

\* ToBoolean: what `x ? a : b`, `x || y` and _.compact test.
Truthy(v) ==
    CASE v.t = "undefined" -> FALSE
      [] v.t = "null" -> FALSE
      [] v.t = "string" -> v.v # <<>>
      [] v.t = "number" -> v.v # 0
      [] v.t = "boolean" -> v.v
      [] OTHER -> TRUE

\* a || b
Or(a, b) == IF Truthy(a) THEN a ELSE b

\* o.k on an object: the property, or undefined when it has none.
Get(o, k) == IF k \in DOMAIN o.kv THEN o.kv[k] ELSE Undefined

\* o.k = v (the object is updated in place; the update is returned).
Put(o, k, v) ==
    Obj([x \in (DOMAIN o.kv) \cup {k} |-> IF x = k THEN v ELSE o.kv[x]])

\* Reading a property of undefined or null raises a TypeError.
Nullish(v) == v.t \in {"undefined", "null"}

DigitChars == <<"0", "1", "2", "3", "4", "5", "6", "7", "8", "9">>

RECURSIVE Digits(_)
Digits(n) ==
    IF n < 10 THEN <<DigitChars[n + 1]>>
    ELSE Digits(n \div 10) \o <<DigitChars[(n % 10) + 1]>>

\* Number to string, for integers.
NumToStr(n) == IF n < 0 THEN <<"-">> \o Digits(-n) ELSE Digits(n)

\* ToString, as a template literal `${ v }` applies it.
ToStr(v) ==
    CASE v.t = "string" -> v.v
      [] v.t = "number" -> NumToStr(v.v)
      [] v.t = "undefined" -> <<"u", "n", "d", "e", "f", "i", "n", "e", "d">>
      [] v.t = "null" -> <<"n", "u", "l", "l">>
      [] v.t = "boolean" ->
            IF v.v THEN <<"t", "r", "u", "e">> ELSE <<"f", "a", "l", "s", "e">>
      [] OTHER -> <<"[", "o", "b", "j", "e", "c", "t", " ",
                    "O", "b", "j", "e", "c", "t", "]">>

\* String.prototype.substring(a, b) for 0 <= a <= b.
Substring(s, a, b) ==
    SubSeq(s, a + 1, IF b < Len(s) THEN b ELSE Len(s))

\* JSON.stringify on the values the model uses: primitives, and objects with
\* at most one property, whose name is a single character.  undefined has no
\* JSON text (the result is undefined), and an undefined property is left out.
RECURSIVE JSON_stringify(_)
JSON_stringify(v) ==
    CASE v.t = "undefined" -> Undefined
      [] v.t = "null" -> Str(<<"n", "u", "l", "l">>)
      [] v.t = "number" -> Str(NumToStr(v.v))
      [] v.t = "boolean" -> Str(ToStr(v))
      [] v.t = "string" -> Str(<<"\"">> \o v.v \o <<"\"">>)
      [] OTHER ->
            LET keys == {k \in DOMAIN v.kv : JSON_stringify(v.kv[k]) # Undefined}
            IN  IF keys = {} THEN Str(<<"{", "}">>)
                ELSE LET k == CHOOSE x \in keys : TRUE
                     IN  Str(<<"{", "\"", k, "\"", ":">>
                             \o JSON_stringify(v.kv[k]).v \o <<"}">>)

\* _.compact: the truthy elements, in order.
RECURSIVE Compact(_)
Compact(parts) ==
    IF parts = <<>> THEN <<>>
    ELSE IF Truthy(Head(parts)) THEN <<Head(parts)>> \o Compact(Tail(parts))
    ELSE Compact(Tail(parts))

\* Array.prototype.join(sep) on an array of strings.
RECURSIVE Join(_, _)
Join(parts, sep) ==
    IF parts = <<>> THEN <<>>
    ELSE IF Len(parts) = 1 THEN ToStr(parts[1])
    ELSE ToStr(parts[1]) \o sep \o Join(Tail(parts), sep)

\* A raised TypeError; `why` names the expression that raised it.
TypeError(why) ==
    [kv |-> [k \in {"name"} |->
                Str(<<"T", "y", "p", "e", "E", "r", "r", "o", "r">>)],
     t |-> "object",
     why |-> why]

Return(v) == [type |-> "return", value |-> v]
Throw(e) == [error |-> e, type |-> "throw"]

---------------------------------------------------------------------------
(* String literals of the source.                                          *)

DefaultHost ==
    <<"h", "t", "t", "p", "s", ":", "/", "/", "a", "g", ".", "u", "s", ".",
      "c", "l", "e", "a", "r", "a", "p", "i", "s", ".", "c", "o", "m">>

AirTempEndpoint ==
    <<"/", "v", "1", ".", "2", "/", "h", "i", "s", "t", "o", "r", "i", "c",
      "a", "l", "/", "d", "a", "i", "l", "y", "/", "a", "i", "r", "_", "t",
      "e", "m", "p">>

ClientName == <<"c", "l", "e", "a", "r", "a", "g", "-", "a", "p", "i">>
DefaultLogLevel == <<"v", "e", "r", "b", "o", "s", "e">>
DefaultResponseType == <<"j", "s", "o", "n">>
DefaultTimeout == 1000 * 60 * 3
ErrorLevel == <<"e", "r", "r", "o", "r">>
MethodGetLower == <<"g", "e", "t">>
MethodGetUpper == <<"G", "E", "T">>

---------------------------------------------------------------------------
(* The strict variant: class ClearAg, src/lib/clearag.js.                  *)

ClearAg_constructor(options) ==
    Obj([k \in {"appId", "appKey", "debug", "host"} |->
        CASE k = "appId" ->
                Or(Or(Get(options, "appId"), Get(options, "app_id")), Str(<<>>))
          [] k = "appKey" ->
                Or(Or(Get(options, "appKey"), Get(options, "app_key")), Str(<<>>))
          [] k = "debug" -> Or(Get(options, "debug"), Bool(FALSE))
          [] k = "host" -> Or(Get(options, "host"), Str(DefaultHost))])

\* _buildApiUrl putting a '/' before every endpoint.
ClearAg_buildApiUrlDup(this, endpoint) ==
    Str(Get(this, "host").v \o <<"/">> \o endpoint.v)

ClearAg_buildApiUrl(this, endpoint) ==
    LET e == IF Substring(endpoint.v, 0, 1) # <<"/">>
             THEN <<"/">> \o endpoint.v
             ELSE endpoint.v
    IN  Str(Get(this, "host").v \o e)

\* The credential a request carries: the instance's if it is truthy, else
\* the call's if it is truthy, else null.
Credential(own, given) ==
    IF Truthy(own) THEN own ELSE IF Truthy(given) THEN given ELSE Null

\* _isResponseSuccessful with the upper end of the range included.
_isResponseSuccessful_inclusive(response) ==
    (Get(response, "status").v >= 200) /\ (Get(response, "status").v <= 300)

_isResponseSuccessful(response) ==
    (Get(response, "status").v >= 200) /\ (Get(response, "status").v < 300)

\* _http up to the call of axios.request: the instance, the config as it
\* stands, and the configs handed to the transport.  A config without
\* params raises before anything is sent.
_http_send(this, config) ==
    LET c0 == Or(config, EmptyObj)
        params == Get(c0, "params")
    IN  IF Nullish(params)
        THEN [config |-> c0, error |-> TypeError("config.params.app_id"),
              self |-> this, sent |-> <<>>, threw |-> TRUE]
        ELSE LET p1 == Put(params, "app_id",
                           Credential(Get(this, "appId"), Get(c0, "appId")))
                 p2 == Put(p1, "app_key",
                           Credential(Get(this, "appKey"), Get(c0, "appKey")))
                 c1 == Put(c0, "params", p2)
             IN  [config |-> c1, error |-> Undefined, self |-> this,
                  sent |-> <<c1>>, threw |-> FALSE]

\* `${ response.status } - ${ config.url } failed`
HttpErrorMessage(config, response) ==
    ToStr(Get(response, "status")) \o <<" ", "-", " ">>
        \o ToStr(Get(config, "url")) \o <<" ", "f", "a", "i", "l", "e", "d">>

HttpError(config, response) ==
    Obj([k \in {"message", "code", "meta"} |->
        CASE k = "message" -> Str(HttpErrorMessage(config, response))
          [] k = "code" -> Get(response, "status")
          [] k = "meta" -> Get(response, "data")])

\* The callback given to .then: it runs when the transport returned a
\* response.
_http_then(this, config, response) ==
    IF ~_isResponseSuccessful(response)
    THEN [logs |-> <<>>, result |-> Throw(HttpError(config, response)),
          self |-> this]
    ELSE [logs |-> <<>>, result |-> Return(Get(response, "data")),
          self |-> this]

\* The promise _http returns: .then has no rejection handler, so what the
\* transport raised passes through.
_http_settle(this, config, outcome) ==
    IF outcome.kind = "resolve"
    THEN _http_then(this, config, outcome.response)
    ELSE [logs |-> <<>>, result |-> Throw(outcome.error), self |-> this]

_httpGet(this, endpoint, params, appId, appKey) ==
    _http_send(this,
        Obj([k \in {"method", "url", "params", "appId", "appKey"} |->
            CASE k = "method" -> Str(MethodGetLower)
              [] k = "url" -> ClearAg_buildApiUrl(this, endpoint)
              [] k = "params" -> Or(params, EmptyObj)
              [] k = "appId" -> appId
              [] k = "appKey" -> appKey]))

ClearAg_dailyHistoricalAirTemperature(this, start, end, latitude, longitude, location, unitcode) ==
    _httpGet(this, Str(AirTempEndpoint),
        Obj([k \in {"start", "end", "location", "unitcode"} |->
            CASE k = "start" -> start
              [] k = "end" -> end
              [] k = "location" ->
                    IF Truthy(location) THEN location
                    ELSE Str(ToStr(latitude) \o <<",", " ">> \o ToStr(longitude))
              [] k = "unitcode" -> unitcode]),
        Undefined, Undefined)

---------------------------------------------------------------------------
(* The tolerant variant: class ClearAgApi, src/unnamed/part_000.           *)

ClearAgApi_constructor(options, logger) ==
    Obj([k \in {"name", "appId", "appKey", "host", "logger", "loggerConfig",
                "logLevel", "responseType", "timeout"} |->
        CASE k = "name" -> Str(ClientName)
          [] k = "appId" ->
                Or(Or(Get(options, "appId"), Get(options, "app_id")), Str(<<>>))
          [] k = "appKey" ->
                Or(Or(Get(options, "appKey"), Get(options, "app_key")), Str(<<>>))
          [] k = "host" -> Or(Get(options, "host"), Str(DefaultHost))
          [] k = "logger" -> Or(logger, Null)
          [] k = "loggerConfig" -> Get(options, "loggerConfig")
          [] k = "logLevel" -> Or(Get(options, "logLevel"), Str(DefaultLogLevel))
          [] k = "responseType" ->
                Or(Get(options, "responseType"), Str(DefaultResponseType))
          [] k = "timeout" -> Or(Get(options, "timeout"), Num(DefaultTimeout))])

ClearAgApi_buildApiUrl(this, endpoint) ==
    LET e == IF Substring(endpoint.v, 0, 1) # <<"/">>
             THEN <<"/">> \o endpoint.v
             ELSE endpoint.v
    IN  Str(Get(this, "host").v \o e)

\* LogParts with the endpoint left out when the params flag is off.
LogParts_noEndpoint(this, endpoint, axiosConfig, response) ==
    LET loggerConfig == Get(this, "loggerConfig")
    IN  << Str(<<"[">> \o ToStr(Get(this, "name")) \o <<"]">>),
           Get(axiosConfig, "method"),
           Null,
           IF Truthy(Get(loggerConfig, "params"))
           THEN Get(Get(response, "request"), "path")
           ELSE Null,
           IF Truthy(Get(loggerConfig, "data"))
           THEN JSON_stringify(Get(axiosConfig, "data"))
           ELSE Null,
           Str(ToStr(Get(response, "status")) \o <<" ">>
                   \o ToStr(Get(response, "statusText"))),
           IF Truthy(Get(loggerConfig, "response"))
           THEN JSON_stringify(Get(response, "data"))
           ELSE Null >>

\* The segments _writeLog pushes, in order, once none of them has raised
\* (the url segment is then null: with the url flag on, _buildScheme raises).
LogParts(this, endpoint, axiosConfig, response) ==
    LET loggerConfig == Get(this, "loggerConfig")
    IN  << Str(<<"[">> \o ToStr(Get(this, "name")) \o <<"]">>),
           Get(axiosConfig, "method"),
           Null,
           IF Truthy(Get(loggerConfig, "params"))
           THEN Get(Get(response, "request"), "path")
           ELSE endpoint,
           IF Truthy(Get(loggerConfig, "data"))
           THEN JSON_stringify(Get(axiosConfig, "data"))
           ELSE Null,
           Str(ToStr(Get(response, "status")) \o <<" ">>
                   \o ToStr(Get(response, "statusText"))),
           IF Truthy(Get(loggerConfig, "response"))
           THEN JSON_stringify(Get(response, "data"))
           ELSE Null >>

\* _writeLog: the lines given to the logger, or the TypeError raised on the
\* way.  The class has no _buildScheme, so calling it raises.
_writeLog(this, endpoint, axiosConfig, response, logLevel) ==
    LET loggerConfig == Get(this, "loggerConfig")
        quiet == [error |-> Undefined, logs |-> <<>>, threw |-> FALSE]
        raise(why) == [error |-> TypeError(why), logs |-> <<>>, threw |-> TRUE]
    IN  IF ~Truthy(Get(this, "logger")) THEN quiet
        ELSE IF Nullish(loggerConfig) THEN raise("this.loggerConfig.url")
        ELSE IF Truthy(Get(loggerConfig, "url")) THEN raise("this._buildScheme()")
        ELSE IF Truthy(Get(loggerConfig, "params"))
                /\ Nullish(Get(response, "request"))
        THEN raise("response.request.path")
        ELSE [error |-> Undefined,
              logs |-> << [level |-> logLevel,
                           line |-> Str(Join(Compact(LogParts(this, endpoint,
                                        axiosConfig, response)), <<" ">>))] >>,
              threw |-> FALSE]

\* _request up to `await instance(config)`.
_request_send(this, endpoint, config) ==
    LET c0 == Or(config, EmptyObj)
        c1 == Put(c0, "url", ClearAgApi_buildApiUrl(this, endpoint))
        c2 == Put(c1, "responseType", Get(this, "responseType"))
        params == Get(c2, "params")
    IN  IF Nullish(params)
        THEN [config |-> c2, error |-> TypeError("config.params.app_id"),
              self |-> this, sent |-> <<>>, threw |-> TRUE]
        ELSE LET p1 == Put(params, "app_id",
                           Credential(Get(this, "appId"), Get(c2, "appId")))
                 p2 == Put(p1, "app_key",
                           Credential(Get(this, "appKey"), Get(c2, "appKey")))
                 c3 == Put(c2, "params", p2)
                 c4 == IF Truthy(Get(this, "timeout"))
                       THEN Put(c3, "timeout", Get(this, "timeout"))
                       ELSE c3
             IN  [config |-> c4, error |-> Undefined, self |-> this,
                  sent |-> <<c4>>, threw |-> FALSE]

\* The catch block raising an error of its own in place of one that carries
\* no response.
_request_catch_wrap(this, endpoint, config, e) ==
    IF Truthy(Get(e, "response"))
    THEN LET w == _writeLog(this, endpoint, config, Get(e, "response"),
                            Str(ErrorLevel))
         IN  IF w.threw
             THEN [logs |-> w.logs, result |-> Throw(w.error), self |-> this]
             ELSE IF Get(Get(e, "response"), "status") = Num(404)
             THEN [logs |-> w.logs, result |-> Return(Null), self |-> this]
             ELSE [logs |-> w.logs, result |-> Throw(e), self |-> this]
    ELSE [logs |-> <<>>, result |-> Throw(Lit1("cause", e)), self |-> this]

\* The catch block of _request: the transport raised e.
_request_catch(this, endpoint, config, e) ==
    IF Truthy(Get(e, "response"))
    THEN LET w == _writeLog(this, endpoint, config, Get(e, "response"),
                            Str(ErrorLevel))
         IN  IF w.threw
             THEN [logs |-> w.logs, result |-> Throw(w.error), self |-> this]
             ELSE IF Get(Get(e, "response"), "status") = Num(404)
             THEN [logs |-> w.logs, result |-> Return(Null), self |-> this]
             ELSE [logs |-> w.logs, result |-> Throw(e), self |-> this]
    ELSE [logs |-> <<>>, result |-> Throw(e), self |-> this]

\* _request from the await on: the catch block, or the log and the return.
_request_resume(this, endpoint, config, outcome) ==
    IF outcome.kind = "reject"
    THEN _request_catch(this, endpoint, config, outcome.error)
    ELSE LET w == _writeLog(this, endpoint, config, outcome.response,
                            Get(this, "logLevel"))
         IN  IF w.threw
             THEN [logs |-> w.logs, result |-> Throw(w.error), self |-> this]
             ELSE [logs |-> w.logs,
                   result |-> Return(Get(outcome.response, "data")),
                   self |-> this]

_get(this, endpoint, params, appId, appKey) ==
    _request_send(this, endpoint,
        Obj([k \in {"method", "params", "appId", "appKey"} |->
            CASE k = "method" -> Str(MethodGetUpper)
              [] k = "params" -> Or(params, EmptyObj)
              [] k = "appId" -> appId
              [] k = "appKey" -> appKey]))

\* dailyHistoricalAirTemperature joining the coordinates with no space.
ClearAgApi_dailyHistoricalAirTemperature_noSpace(this, start, end, latitude, longitude, location, unitcode) ==
    _get(this, Str(AirTempEndpoint),
        Obj([k \in {"start", "end", "location", "unitcode"} |->
            CASE k = "start" -> start
              [] k = "end" -> end
              [] k = "location" ->
                    IF Truthy(location) THEN location
                    ELSE Str(ToStr(latitude) \o <<",">> \o ToStr(longitude))
              [] k = "unitcode" -> unitcode]),
        Undefined, Undefined)

ClearAgApi_dailyHistoricalAirTemperature(this, start, end, latitude, longitude, location, unitcode) ==
    _get(this, Str(AirTempEndpoint),
        Obj([k \in {"start", "end", "location", "unitcode"} |->
            CASE k = "start" -> start
              [] k = "end" -> end
              [] k = "location" ->
                    IF Truthy(location) THEN location
                    ELSE Str(ToStr(latitude) \o <<",", " ">> \o ToStr(longitude))
              [] k = "unitcode" -> unitcode]),
        Undefined, Undefined)

---------------------------------------------------------------------------
(* The environment: what callers pass and what the transport answers.      *)

Calls == 1 .. MaxCalls

IsStrict(this) == "debug" \in DOMAIN this.kv
IsTolerant(this) == "logger" \in DOMAIN this.kv

\* Constructor options: credentials under either spelling, and a host.
CredOptions ==
    { Obj([k \in {"appId", "appKey"} |-> Str(<<>>)]),
      Lit2("appId", Str(<<"I">>), "appKey", Str(<<"K">>)),
      Lit2("app_id", Str(<<"J">>), "app_key", Str(<<"L">>)),
      Lit1("appId", Str(<<"I">>)),
      Obj([k \in {"appId", "appKey", "host"} |->
            IF k = "host" THEN Str(<<"h">>) ELSE Str(<<"I">>)]) }

\* loggerConfig: every subset of the four detail flags.
Flags == {"url", "params", "data", "response"}
LoggerConfigs == { Obj([k \in on |-> Bool(TRUE)]) : on \in SUBSET Flags }

Logger == Lit1("sink", Bool(TRUE))

\* How logging is set up: no logger; a logger and no loggerConfig; a logger
\* and a loggerConfig; a logger, a loggerConfig and a logLevel.
LoggingSetups ==
    { [logger |-> Undefined, options |-> EmptyObj],
      [logger |-> Undefined,
       options |-> Lit1("loggerConfig", Lit1("response", Bool(TRUE)))],
      [logger |-> Logger, options |-> EmptyObj],
      [logger |-> Logger,
       options |-> Lit2("loggerConfig", Lit1("response", Bool(TRUE)),
                        "logLevel", Str(<<"i", "n", "f", "o">>))] }
    \cup { [logger |-> Logger, options |-> Lit1("loggerConfig", lc)] :
                lc \in LoggerConfigs }

\* The properties of a and of b in one object (b's win).
Merge(a, b) ==
    Obj([k \in (DOMAIN a.kv) \cup (DOMAIN b.kv) |->
            IF k \in DOMAIN b.kv THEN b.kv[k] ELSE a.kv[k]])

StrictClients == { ClearAg_constructor(o) : o \in CredOptions }

TolerantClients ==
    { ClearAgApi_constructor(Merge(o, l.options), l.logger) :
        o \in CredOptions, l \in LoggingSetups }

\* What callers pass to _get and _httpGet.
EndpointInputs == { Str(<<"a">>), Str(<<"/", "a">>) }

ParamsInputs ==
    { Undefined,
      EmptyObj,
      Lit1("q", Str(<<"1">>)),
      Lit2("app_id", Str(<<"x">>), "app_key", Str(<<"y">>)) }

CallCredInputs ==
    { [appId |-> Undefined, appKey |-> Undefined],
      [appId |-> Str(<<>>), appKey |-> Undefined],
      [appId |-> Str(<<"c">>), appKey |-> Str(<<"d">>)] }

\* What callers pass to dailyHistoricalAirTemperature.
LocationInputs == { Undefined, Str(<<>>), Str(<<"4", ",", "5">>) }
UnitcodeInputs == { Undefined, Str(<<"s", "i">>) }
StartInput == Num(1577836800)
EndInput == Num(1577923200)
LatitudeInput == Num(40)
LongitudeInput == Num(-74)

\* What the transport answers.
Statuses == {199, 200, 299, 300, 404, 500}

StatusText(status) ==
    CASE status = 200 -> Str(<<"O", "K">>)
      [] status = 404 -> Str(<<"N", "o", "t", " ", "F", "o", "u", "n", "d">>)
      [] OTHER -> Str(<<>>)

DataInputs == { Undefined, Lit1("t", Num(1)) }

RequestInputs ==
    { Undefined, EmptyObj, Lit1("path", Str(<<"/", "a", "?", "q">>)) }

Response(status, data, request) ==
    Obj([k \in {"status", "statusText", "data", "request"} |->
        CASE k = "status" -> Num(status)
          [] k = "statusText" -> StatusText(status)
          [] k = "data" -> data
          [] k = "request" -> request])

Responses ==
    { Response(s, d, r) : s \in Statuses, d \in DataInputs, r \in RequestInputs }

\* An error of the transport: with the response it got, or with none.
ErrorWith(response) ==
    Lit2("message", Str(<<"f", "a", "i", "l", "e", "d">>), "response", response)

NetworkError == Lit1("message", Str(<<"t", "i", "m", "e", "o", "u", "t">>))

TransportErrors == { ErrorWith(r) : r \in Responses } \cup { NetworkError }

---------------------------------------------------------------------------
(* State and steps.  JavaScript runs a call to its first await without     *)
(* interruption, and a continuation to its end: a call takes one step to   *)
(* hand its request to the transport and one step when the transport       *)
(* answers.                                                                *)

\* _get and _httpGet put the caller's params object itself into the config
\* (params: params || {}), and the pipeline writes app_id and app_key into
\* that object.  A caller may pass an object it holds to several calls:
\* ParamRefs names such objects, heap gives what they hold now.  NoRef
\* stands for an object only this call has (the {} made for absent params,
\* an object the caller passes once).
ParamRefs == {"p"}
NoRef == "none"

\* Call d was given the object ref as params.
Aliased(d, ref) == ref # NoRef /\ calls[d].ref = ref

\* The configs, with the params object reading params.
RECURSIVE WithParams(_, _)
WithParams(configs, params) ==
    IF configs = <<>> THEN <<>>
    ELSE <<Put(Head(configs), "params", params)>>
            \o WithParams(Tail(configs), params)

\* What a caller passes as params: one of paramsSet, in an object of the
\* call's own, or an object it holds, which reads as the heap says.
ParamsGiven(paramsSet) ==
    { [params |-> p, ref |-> NoRef] : p \in paramsSet }
    \cup { [params |-> heap[ref], ref |-> ref] : ref \in ParamRefs }

NoOutcome == [kind |-> "none"]
NoResult == [type |-> "none"]

IdleCall ==
    [args |-> EmptyObj, config |-> Undefined, endpoint |-> Undefined,
     entry |-> "none", logs |-> <<>>, outcome |-> NoOutcome, pc |-> "idle",
     ref |-> NoRef, result |-> NoResult]

NoFn == [op |-> "none"]

\* Call c has run to the transport: r is what the entry point did, ref the
\* object it was given as params.  The credentials were written into that
\* object: it reads anew for the caller and in the config of every other
\* call that was given it, the configs already handed to the transport
\* included.
Launch(c, entry, args, endpoint, ref, r) ==
    /\ calls[c].pc = "idle"
    /\ client' = r.self
    /\ heap' = IF ref = NoRef THEN heap
               ELSE [heap EXCEPT ![ref] = Get(r.config, "params")]
    /\ wire' = [d \in Calls |->
            IF d = c THEN wire[c] \o r.sent
            ELSE IF Aliased(d, ref)
            THEN WithParams(wire[d], Get(r.config, "params"))
            ELSE wire[d]]
    /\ calls' = [d \in Calls |->
            IF d = c
            THEN [args |-> args, config |-> r.config, endpoint |-> endpoint,
                  entry |-> entry, logs |-> <<>>, outcome |-> NoOutcome,
                  pc |-> IF r.threw THEN "done" ELSE "inflight",
                  ref |-> ref,
                  result |-> IF r.threw THEN Throw(r.error) ELSE NoResult]
            ELSE IF Aliased(d, ref)
            THEN [calls[d] EXCEPT
                    !.config = Put(@, "params", Get(r.config, "params"))]
            ELSE calls[d]]
    /\ UNCHANGED <<sink, fn>>

\* The transport answered call c with outcome: r is what the rest of the
\* call did.
Finish(c, outcome, r) ==
    /\ calls[c].pc = "inflight"
    /\ client' = r.self
    /\ sink' = sink \o r.logs
    /\ calls' = [calls EXCEPT ![c] =
            [@ EXCEPT !.pc = "done", !.outcome = outcome,
                      !.result = r.result, !.logs = r.logs]]
    /\ UNCHANGED <<wire, heap, fn>>

GetArgs(endpoint, params, cred) ==
    Obj([k \in {"endpoint", "params", "appId", "appKey"} |->
        CASE k = "endpoint" -> endpoint
          [] k = "params" -> params
          [] k = "appId" -> cred.appId
          [] k = "appKey" -> cred.appKey])

DailyArgs(location, unitcode) ==
    Obj([k \in {"start", "end", "latitude", "longitude", "location",
                "unitcode"} |->
        CASE k = "start" -> StartInput
          [] k = "end" -> EndInput
          [] k = "latitude" -> LatitudeInput
          [] k = "longitude" -> LongitudeInput
          [] k = "location" -> location
          [] k = "unitcode" -> unitcode])

StrictGetWith(c, endpoints, paramsSet, creds) ==
    /\ IsStrict(client)
    /\ \E endpoint \in endpoints, p \in ParamsGiven(paramsSet), cred \in creds :
          Launch(c, "_get", GetArgs(endpoint, p.params, cred), endpoint, p.ref,
                 _httpGet(client, endpoint, p.params, cred.appId, cred.appKey))

TolerantGetWith(c, endpoints, paramsSet, creds) ==
    /\ IsTolerant(client)
    /\ \E endpoint \in endpoints, p \in ParamsGiven(paramsSet), cred \in creds :
          Launch(c, "_get", GetArgs(endpoint, p.params, cred), endpoint, p.ref,
                 _get(client, endpoint, p.params, cred.appId, cred.appKey))

StrictGet(c) == StrictGetWith(c, EndpointInputs, ParamsInputs, CallCredInputs)

TolerantGet(c) == TolerantGetWith(c, EndpointInputs, ParamsInputs, CallCredInputs)

StrictDaily(c) ==
    /\ IsStrict(client)
    /\ \E location \in LocationInputs, unitcode \in UnitcodeInputs :
          Launch(c, "daily", DailyArgs(location, unitcode), Str(AirTempEndpoint),
                 NoRef,
                 ClearAg_dailyHistoricalAirTemperature(client, StartInput,
                     EndInput, LatitudeInput, LongitudeInput, location, unitcode))

TolerantDaily(c) ==
    /\ IsTolerant(client)
    /\ \E location \in LocationInputs, unitcode \in UnitcodeInputs :
          Launch(c, "daily", DailyArgs(location, unitcode), Str(AirTempEndpoint),
                 NoRef,
                 ClearAgApi_dailyHistoricalAirTemperature(client, StartInput,
                     EndInput, LatitudeInput, LongitudeInput, location, unitcode))

Resolved(response) == [kind |-> "resolve", response |-> response]
Rejected(e) == [error |-> e, kind |-> "reject"]

StrictSettleWith(c, outcomes) ==
    /\ IsStrict(client)
    /\ \E outcome \in outcomes :
          Finish(c, outcome, _http_settle(client, calls[c].config, outcome))

TolerantSettleWith(c, outcomes) ==
    /\ IsTolerant(client)
    /\ \E outcome \in outcomes :
          Finish(c, outcome,
                 _request_resume(client, calls[c].endpoint, calls[c].config,
                                 outcome))

StrictResolves(c) == StrictSettleWith(c, { Resolved(r) : r \in Responses })
StrictRejects(c) == StrictSettleWith(c, { Rejected(e) : e \in TransportErrors })
TolerantResolves(c) == TolerantSettleWith(c, { Resolved(r) : r \in Responses })
TolerantRejects(c) == TolerantSettleWith(c, { Rejected(e) : e \in TransportErrors })

\* One call at a time on an instance built with any of the options.
SingleCall == { c \in Calls : \A d \in Calls : c <= d }

Init ==
    /\ client \in StrictClients \cup TolerantClients
    /\ calls = [c \in Calls |-> IdleCall]
    /\ wire = [c \in Calls |-> <<>>]
    /\ sink = <<>>
    /\ heap = [ref \in ParamRefs |-> EmptyObj]
    /\ fn = NoFn

Next ==
    \E c \in SingleCall :
        \/ StrictGet(c)
        \/ TolerantGet(c)
        \/ StrictDaily(c)
        \/ TolerantDaily(c)
        \/ StrictResolves(c)
        \/ StrictRejects(c)
        \/ TolerantResolves(c)
        \/ TolerantRejects(c)

Spec == Init /\ [][Next]_vars

---------------------------------------------------------------------------
(* _buildApiUrl applied to a host and an endpoint (specification SpecUrl). *)

Alphabet == {"/", "a", "."}

RECURSIVE StringsOfLen(_)
StringsOfLen(n) ==
    IF n = 0 THEN { <<>> }
    ELSE { <<ch>> \o str : ch \in Alphabet, str \in StringsOfLen(n - 1) }

EndpointStrings == UNION { StringsOfLen(n) : n \in 0 .. MaxLen }

HostOptions ==
    { EmptyObj, Lit1("host", Str(<<"h">>)), Lit1("host", Str(<<"h", "/">>)) }

UrlClients ==
    { ClearAg_constructor(o) : o \in HostOptions }
    \cup { ClearAgApi_constructor(o, Undefined) : o \in HostOptions }

InitUrl ==
    /\ client \in UrlClients
    /\ calls = [c \in Calls |-> IdleCall]
    /\ wire = [c \in Calls |-> <<>>]
    /\ sink = <<>>
    /\ heap = [ref \in ParamRefs |-> EmptyObj]
    /\ \E e \in EndpointStrings :
          fn = [endpoint |-> Str(e), host |-> Get(client, "host"),
                op |-> "_buildApiUrl", out |-> Undefined, pc |-> "ready"]

StrictBuildApiUrl ==
    /\ IsStrict(client)
    /\ fn.pc = "ready"
    /\ fn' = [fn EXCEPT !.pc = "applied",
                        !.out = ClearAg_buildApiUrl(client, fn.endpoint)]
    /\ UNCHANGED <<client, calls, wire, sink, heap>>

TolerantBuildApiUrl ==
    /\ IsTolerant(client)
    /\ fn.pc = "ready"
    /\ fn' = [fn EXCEPT !.pc = "applied",
                        !.out = ClearAgApi_buildApiUrl(client, fn.endpoint)]
    /\ UNCHANGED <<client, calls, wire, sink, heap>>

NextUrl == StrictBuildApiUrl \/ TolerantBuildApiUrl

SpecUrl == InitUrl /\ [][NextUrl]_vars

---------------------------------------------------------------------------
(* _writeLog applied to an endpoint, a config and a response               *)
(* (specification SpecLog).                                                *)

LogClients ==
    { ClearAgApi_constructor(l.options, l.logger) : l \in LoggingSetups }

LogEndpoints == { Str(<<>>), Str(<<"/", "a">>) }

BodyInputs == { Undefined, Str(<<"b">>), Lit1("t", Num(1)) }

LogConfigs ==
    { Obj([k \in {"method", "url", "data"} |->
            CASE k = "method" -> Str(MethodGetUpper)
              [] k = "url" -> Str(<<"h", "/", "a">>)
              [] k = "data" -> d]) : d \in BodyInputs }

LogResponses ==
    { Response(s, d, r) :
        s \in {200, 404},
        d \in BodyInputs,
        r \in RequestInputs \cup { Lit1("path", Str(<<>>)) } }

LogLevels == { Str(DefaultLogLevel), Str(ErrorLevel) }

InitLog ==
    /\ client \in LogClients
    /\ calls = [c \in Calls |-> IdleCall]
    /\ wire = [c \in Calls |-> <<>>]
    /\ sink = <<>>
    /\ heap = [ref \in ParamRefs |-> EmptyObj]
    /\ \E e \in LogEndpoints, cfg \in LogConfigs, r \in LogResponses,
          level \in LogLevels :
          fn = [axiosConfig |-> cfg, endpoint |-> e, logLevel |-> level,
                op |-> "_writeLog", out |-> Undefined, pc |-> "ready",
                response |-> r]

WriteLog ==
    /\ fn.pc = "ready"
    /\ LET w == _writeLog(client, fn.endpoint, fn.axiosConfig, fn.response,
                          fn.logLevel)
       IN  /\ fn' = [fn EXCEPT !.pc = "applied", !.out = w]
           /\ sink' = sink \o w.logs
    /\ UNCHANGED <<client, calls, wire, heap>>

NextLog == WriteLog

SpecLog == InitLog /\ [][NextLog]_vars

---------------------------------------------------------------------------
(* Several calls in flight on one instance (specification SpecConc).       *)

ConcClients ==
    { ClearAg_constructor(EmptyObj),
      ClearAgApi_constructor(
          Lit1("loggerConfig", Lit2("params", Bool(TRUE), "response", Bool(TRUE))),
          Logger),
      ClearAgApi_constructor(Lit1("appId", Str(<<"I">>)), Undefined) }

ConcEndpoints == { Str(<<"a">>) }

ConcParams ==
    { EmptyObj, Lit2("app_id", Str(<<"x">>), "app_key", Str(<<"y">>)) }

ConcOutcomes ==
    { Resolved(Response(200, Lit1("t", Num(1)),
                        Lit1("path", Str(<<"/", "a", "?", "q">>)))),
      Resolved(Response(200, Undefined, EmptyObj)),
      Rejected(ErrorWith(Response(404, Undefined, EmptyObj))),
      Rejected(ErrorWith(Response(500, Undefined, EmptyObj))),
      Rejected(NetworkError) }

InitConc ==
    /\ client \in ConcClients
    /\ calls = [c \in Calls |-> IdleCall]
    /\ wire = [c \in Calls |-> <<>>]
    /\ sink = <<>>
    /\ heap \in [ParamRefs -> ConcParams]
    /\ fn = NoFn

NextConc ==
    \E c \in Calls :
        \/ StrictGetWith(c, ConcEndpoints, ConcParams, CallCredInputs)
        \/ TolerantGetWith(c, ConcEndpoints, ConcParams, CallCredInputs)
        \/ StrictSettleWith(c, ConcOutcomes)
        \/ TolerantSettleWith(c, ConcOutcomes)

SpecConc == InitConc /\ [][NextConc]_vars

---------------------------------------------------------------------------
(* Properties of the request pipeline (specification Spec).                *)

Sent(c) == calls[c].pc \in {"inflight", "done"}
Done(c) == calls[c].pc = "done"
NonEmpty(v) == v.t = "string" /\ v.v # <<>>

\* The per-call override a call was given: _get and _httpGet take one,
\* dailyHistoricalAirTemperature passes none.
GivenCred(c, k) ==
    IF calls[c].entry = "_get" THEN Get(calls[c].args, k) ELSE Undefined

\* The credential the claim expects: the instance's if non-empty, else the
\* call's if non-empty, else null.
ExpectedCred(c, k) ==
    IF NonEmpty(Get(client, k)) THEN Get(client, k)
    ELSE IF NonEmpty(GivenCred(c, k)) THEN GivenCred(c, k)
    ELSE Null

\* C1: in both variants the params mapping a call handed to the transport
\* holds, under app_id and app_key, the instance's credential if it is
\* non-empty, else the call's override if it is non-empty, else null,
\* whatever the caller had put under those keys.
C1_CredentialsInjected ==
    \A c \in Calls :
        Sent(c) =>
            /\ Len(wire[c]) = 1
            /\ Get(Get(wire[c][1], "params"), "app_id") = ExpectedCred(c, "appId")
            /\ Get(Get(wire[c][1], "params"), "app_key") = ExpectedCred(c, "appKey")

\* At the step that hands it over, the mapping of a call does hold the
\* call's credentials: it is a later call given the same params object that
\* writes its own over them.
CredentialsAtHandOver ==
    [][\A c \in Calls :
          (calls[c].pc = "idle" /\ calls'[c].pc = "inflight") =>
              /\ Len(wire'[c]) = 1
              /\ Get(Get(wire'[c][1], "params"), "app_id")
                    = ExpectedCred(c, "appId")'
              /\ Get(Get(wire'[c][1], "params"), "app_key")
                    = ExpectedCred(c, "appKey")']_vars

\* C3: strict policy.  When the transport returns a response, the call
\* returns response.data if 200 <= status < 300, and otherwise raises an
\* error whose code is the status and whose meta is the payload.
C3_StrictClassification ==
    \A c \in Calls :
        (Done(c) /\ IsStrict(client) /\ calls[c].outcome.kind = "resolve") =>
            LET response == calls[c].outcome.response
                status == Get(response, "status").v
            IN  IF 200 <= status /\ status < 300
                THEN calls[c].result = Return(Get(response, "data"))
                ELSE /\ calls[c].result.type = "throw"
                     /\ Get(calls[c].result.error, "code") = Num(status)
                     /\ Get(calls[c].result.error, "meta") = Get(response, "data")

\* A strict call answered with status 300 raised, with code 300.
C3_Witness ==
    \E c \in Calls :
        /\ Done(c) /\ IsStrict(client)
        /\ calls[c].outcome.kind = "resolve"
        /\ Get(calls[c].outcome.response, "status") = Num(300)
        /\ calls[c].result.type = "throw"
        /\ Get(calls[c].result.error, "code") = Num(300)

\* C9: no retry.  In both variants a call hands the transport one request,
\* and has handed it no other by the time it completes; an error of the
\* transport that carries no response is raised to the caller as it is.
C9_NoRetry ==
    \A c \in Calls :
        /\ Sent(c) => Len(wire[c]) = 1
        /\ (Done(c) /\ calls[c].outcome.kind = "reject"
                /\ ~Truthy(Get(calls[c].outcome.error, "response"))) =>
              calls[c].result = Throw(calls[c].outcome.error)

\* A tolerant call with a logger whose transport failed with no response:
\* one request went out and the call raised that failure.
C9_Witness ==
    \E c \in Calls :
        /\ Done(c) /\ IsTolerant(client)
        /\ Truthy(Get(client, "logger"))
        /\ calls[c].outcome = Rejected(NetworkError)
        /\ calls[c].result = Throw(NetworkError)
        /\ Len(wire[c]) = 1

\* What the tolerant policy makes of an outcome, logging aside: the payload
\* of a response, null for an error whose response has status 404, the
\* error itself otherwise.
TolerantExpected(outcome) ==
    IF outcome.kind = "resolve" THEN Return(Get(outcome.response, "data"))
    ELSE IF Truthy(Get(outcome.error, "response"))
            /\ Get(Get(outcome.error, "response"), "status") = Num(404)
    THEN Return(Null)
    ELSE Throw(outcome.error)

\* C2: every call of _request has emitted exactly one log line by the time
\* it completes if a log sink is configured, and none if no sink is.
C2_OneLogLinePerCall ==
    \A c \in Calls :
        (Done(c) /\ IsTolerant(client)) =>
            Len(calls[c].logs) = IF Truthy(Get(client, "logger")) THEN 1 ELSE 0

\* C4: tolerant policy, for every configuration.  An error of the transport
\* whose response has status 404 makes the call return null; one whose
\* response has another status, or that has no response, is raised as it is.
C4_TolerantClassification ==
    \A c \in Calls :
        (Done(c) /\ IsTolerant(client) /\ calls[c].outcome.kind = "reject") =>
            calls[c].result = TolerantExpected(calls[c].outcome)

\* C5: logging never replaces the outcome.  With a log sink configured, the
\* call returns or raises what it would with none, and _writeLog raises no
\* error of its own.
C5_LoggingKeepsOutcome ==
    \A c \in Calls :
        (Done(c) /\ IsTolerant(client) /\ Truthy(Get(client, "logger"))) =>
            /\ calls[c].result = TolerantExpected(calls[c].outcome)
            /\ ~( /\ calls[c].result.type = "throw"
                  /\ calls[c].result.error \in
                        { TypeError(why) : why \in
                            { "this.loggerConfig.url", "this._buildScheme()",
                              "response.request.path" } } )

\* What a call of dailyHistoricalAirTemperature hands over, but for the
\* location: one GET request to host + '/v1.2/historical/daily/air_temp'
\* with start, end and unitcode unchanged; and, for the strict variant and
\* for the tolerant one without a logger, the pipeline's result.
DailyDelegates(c) ==
    /\ Len(wire[c]) = 1
    /\ Get(wire[c][1], "method") \in {Str(MethodGetLower), Str(MethodGetUpper)}
    /\ Get(wire[c][1], "url") = Str(Get(client, "host").v \o AirTempEndpoint)
    /\ \A k \in {"start", "end", "unitcode"} :
          Get(Get(wire[c][1], "params"), k) = Get(calls[c].args, k)
    /\ (Done(c) /\ IsStrict(client)) =>
          calls[c].result \in
              { Return(Get(r, "data")) : r \in Responses }
              \cup { Throw(e) : e \in TransportErrors }
              \cup { Throw(HttpError(calls[c].config, r)) : r \in Responses }
    /\ (Done(c) /\ IsTolerant(client) /\ ~Truthy(Get(client, "logger"))) =>
          calls[c].result = TolerantExpected(calls[c].outcome)

\* '<latitude>, <longitude>' for the coordinates the calls are given.
LatLon == <<"4", "0", ",", " ", "-", "7", "4">>

\* C8 as stated: the location handed over is the location argument whenever
\* a string is supplied, and '<latitude>, <longitude>' otherwise.
C8_Original ==
    \A c \in Calls :
        (Sent(c) /\ calls[c].entry = "daily") =>
            /\ DailyDelegates(c)
            /\ Get(Get(wire[c][1], "params"), "location") =
                  IF Get(calls[c].args, "location").t = "string"
                  THEN Get(calls[c].args, "location")
                  ELSE Str(LatLon)

\* C8, amended: the location handed over is the location argument when it
\* is a non-empty string, and '<latitude>, <longitude>' when it is absent or
\* the empty string.
C8_DailyAirTemperature ==
    \A c \in Calls :
        (Sent(c) /\ calls[c].entry = "daily") =>
            /\ DailyDelegates(c)
            /\ Get(Get(wire[c][1], "params"), "location") =
                  IF NonEmpty(Get(calls[c].args, "location"))
                  THEN Get(calls[c].args, "location")
                  ELSE Str(LatLon)

\* A completed call given the empty string as location: '40, -74' went out.
C8_Witness ==
    \E c \in Calls :
        /\ Done(c) /\ calls[c].entry = "daily"
        /\ Get(calls[c].args, "location") = Str(<<>>)
        /\ Get(Get(wire[c][1], "params"), "location") = Str(LatLon)
        /\ Get(wire[c][1], "url") = Str(Get(client, "host").v \o AirTempEndpoint)

---------------------------------------------------------------------------
(* Properties of _buildApiUrl (specification SpecUrl).                     *)

\* C7: in both variants, for every host and every endpoint (the empty one
\* too), _buildApiUrl gives host + '/' + endpoint when the endpoint does not
\* start with '/', and host + endpoint when it does; it always gives a
\* string, and the stored host stays what it was.
C7_BuildApiUrl ==
    /\ Get(client, "host") = fn.host
    /\ fn.pc = "applied" =>
          /\ fn.out.t = "string"
          /\ IF fn.endpoint.v # <<>> /\ Head(fn.endpoint.v) = "/"
             THEN fn.out.v = fn.host.v \o fn.endpoint.v
             ELSE fn.out.v = fn.host.v \o <<"/">> \o fn.endpoint.v

\* _buildApiUrl applied to an endpoint that starts with '/', and to the
\* empty endpoint, on the tolerant variant.
C7_Witness ==
    /\ fn.pc = "applied"
    /\ IsTolerant(client)
    /\ fn.endpoint = Str(<<"/", "a">>)
    /\ fn.out = Str(fn.host.v \o <<"/", "a">>)

---------------------------------------------------------------------------
(* Properties of _writeLog (specification SpecLog).                        *)

FlagOn(k) ==
    /\ ~Nullish(Get(client, "loggerConfig"))
    /\ Truthy(Get(Get(client, "loggerConfig"), k))

\* The JSON text of the bodies the model uses, written out; none for
\* undefined.
JsonText(v) ==
    CASE v = Str(<<"b">>) -> <<"\"", "b", "\"">>
      [] v = Lit1("t", Num(1)) -> <<"{", "\"", "t", "\"", ":", "1", "}">>
      [] OTHER -> <<>>

\* '<status> <statusText>' of the responses the model uses, written out.
StatusSegment(response) ==
    IF Get(response, "status") = Num(200)
    THEN <<"2", "0", "0", " ", "O", "K">>
    ELSE <<"4", "0", "4", " ", "N", "o", "t", " ", "F", "o", "u", "n", "d">>

\* response.request.path where there is one, else nothing.
RequestPath(response) ==
    IF Nullish(Get(response, "request")) THEN <<>>
    ELSE IF Get(Get(response, "request"), "path").t = "string"
    THEN Get(Get(response, "request"), "path").v
    ELSE <<>>

\* The segments that are not empty, joined by single spaces.
RECURSIVE SpaceJoin(_)
SpaceJoin(segments) ==
    IF segments = <<>> THEN <<>>
    ELSE LET rest == SpaceJoin(Tail(segments))
         IN  IF Head(segments) = <<>> THEN rest
             ELSE IF rest = <<>> THEN Head(segments)
             ELSE Head(segments) \o <<" ">> \o rest

\* The line of the claim, given the segment that stands between the URL and
\* the request body.
LineWith(pathSegment) ==
    SpaceJoin(<< <<"[">> \o ClientName \o <<"]">>,
                 Get(fn.axiosConfig, "method").v,
                 IF FlagOn("url") THEN Get(fn.axiosConfig, "url").v ELSE <<>>,
                 pathSegment,
                 IF FlagOn("data") THEN JsonText(Get(fn.axiosConfig, "data"))
                 ELSE <<>>,
                 StatusSegment(fn.response),
                 IF FlagOn("response") THEN JsonText(Get(fn.response, "data"))
                 ELSE <<>> >>)

Emitted == fn.op = "_writeLog" /\ fn.pc = "applied" /\ fn.out.logs # <<>>

\* C6 as stated: the line _writeLog emits holds, in order and joined by
\* single spaces, the bracketed name, the method, the URL only if the url
\* flag is on, the request path only if the params flag is on, the request
\* body only if the data flag is on and there is a body, the status and its
\* text, and the response body only if the response flag is on.
C6_Original ==
    Emitted =>
        /\ Len(fn.out.logs) = 1
        /\ fn.out.logs[1].line =
              Str(LineWith(IF FlagOn("params") THEN RequestPath(fn.response)
                           ELSE <<>>))

\* C6, amended: as stated, but the segment after the URL is the request
\* path if the params flag is on and the endpoint it was called with if the
\* flag is off.
C6_LogLine ==
    Emitted =>
        /\ Len(fn.out.logs) = 1
        /\ sink = fn.out.logs
        /\ fn.out.logs[1].line =
              Str(LineWith(IF FlagOn("params") THEN RequestPath(fn.response)
                           ELSE fn.endpoint.v))

\* With only the response flag on, a request body and an endpoint: the line
\* holds the endpoint, the status and the response body, and neither the
\* URL nor the request body.
C6_Witness ==
    /\ Emitted
    /\ Get(client, "loggerConfig") = Lit1("response", Bool(TRUE))
    /\ Get(fn.axiosConfig, "data") = Str(<<"b">>)
    /\ fn.out.logs[1].line =
          Str(<<"[", "c", "l", "e", "a", "r", "a", "g", "-", "a", "p", "i", "]",
                " ", "G", "E", "T", " ", "/", "a", " ", "2", "0", "0", " ", "O",
                "K", " ", "{", "\"", "t", "\"", ":", "1", "}">>)

---------------------------------------------------------------------------
(* Properties of calls in flight together (specification SpecConc).        *)

\* Calls c and d were given the same arguments.
SameArgs(c, d) == calls[c].entry = calls[d].entry /\ calls[c].args = calls[d].args

\* Calls given the same arguments handed over the same request, and with
\* the same answer from the transport they ended alike.
Independent ==
    \A c, d \in Calls :
        /\ (Sent(c) /\ Sent(d) /\ SameArgs(c, d)) => wire[c] = wire[d]
        /\ (Done(c) /\ Done(d) /\ SameArgs(c, d)
                /\ calls[c].outcome = calls[d].outcome) =>
              /\ calls[c].result = calls[d].result
              /\ calls[c].logs = calls[d].logs

\* A step is one call's: it leaves every other call, and what every other
\* call handed over, as they were.
OwnStep ==
    \E c \in Calls :
        \A d \in Calls \ {c} : calls'[d] = calls[d] /\ wire'[d] = wire[d]

\* C10: calls share no mutable state.  In any interleaving of the calls on
\* an instance, no step changes a field of the instance, a step of one call
\* changes nothing of another, and what a call hands over and how it ends
\* are set by its own arguments, the instance and its own answer.
C10_NoSharedState ==
    /\ [][client' = client /\ OwnStep]_vars
    /\ []Independent

===========================================================================
